---- MODULE Spec2Model ----
(***************************************************************************)
(* A model of mini_ll1.py: the Lexer (text -> tokens), the LL(1) recursive *)
(* descent Parser with its leftmost-derivation trace, and main().          *)
(*                                                                         *)
(* Python strings are modelled as sequences of one-character strings, so   *)
(* that joining, scanning and keyword lookup are computed, not assumed.    *)
(* Python indices are 0-based; a Python index i reads element i + 1 here.  *)
(***************************************************************************)
EXTENDS Integers, Sequences, FiniteSets, TLC

VARIABLES
    mpc,               \* position of main(): start, open, lex, lexed, parse, lexer_error, exited
    argc,              \* len(sys.argv)
    file_exists,       \* whether open(filename) finds the file
    exit_status,       \* the process exit status, NoStatus while running
    stdout,            \* what main() has printed, one tag per print
    text,              \* Lexer.text
    lexer_pos,         \* Lexer.pos
    line,              \* Lexer.line
    column,            \* Lexer.column
    lexer_tokens,      \* the local list `tokens` of Lexer.get_tokens
    lexer_error,       \* the LexerError raised, NoError if none
    tokens,            \* Parser.tokens
    pos,               \* Parser.pos
    current,           \* Parser.current
    sentential_form,   \* Parser.sentential_form
    derivation_steps,  \* Parser.derivation_steps
    stack,             \* the parser's call stack: what is left to run, innermost first
    parser_state,      \* idle, running, done, error
    parser_error,      \* the ParserError raised, NoError if none
    record_calls       \* number of calls of Parser._record_derivation so far

main_vars == <<mpc, argc, file_exists, exit_status, stdout>>
lexer_vars == <<text, lexer_pos, line, column, lexer_tokens, lexer_error>>
parser_vars == <<tokens, pos, current, sentential_form, derivation_steps, stack,
                 parser_state, parser_error, record_calls>>
vars == <<main_vars, lexer_vars, parser_vars>>

----------------------------------------------------------------------------
(* Bounds of the model. *)

\* longest input text enumerated exhaustively over Alphabet
MaxLen == 4
\* longest token list (EOF not counted) enumerated exhaustively over TokenKinds
MaxTokens == 4

----------------------------------------------------------------------------
(* Values. *)

None == "None"
NoError == [kind |-> "none"]
NoStatus == "none"
NoToken == [type |-> "none"]

\* str.isalpha(), restricted to the characters the inputs use
Letters == {"a", "b", "c", "d", "e", "f", "g", "h", "i", "j", "k", "l", "m",
            "n", "o", "p", "q", "r", "s", "t", "u", "v", "w", "x", "y", "z"}
\* str.isdigit(), restricted to the characters the inputs use
Digits == {"0", "1", "2", "3", "4", "5", "6", "7", "8", "9"}
\* the tuple (' ', '\t', '\r', '\n') of Lexer._skip_whitespace
WhitespaceChars == {" ", "\t", "\r", "\n"}

Token(type, value, ln, col) == [type |-> type, value |-> value, line |-> ln, column |-> col]

KEYWORDS == [t \in {<<"i", "n", "t">>, <<"p", "r", "i", "n", "t">>} |->
                IF t = <<"i", "n", "t">> THEN "INT" ELSE "PRINT"]

SINGLE_CHAR_TOKENS == [c \in {";", "=", "+", "-", "*", "/", "(", ")"} |->
    CASE c = ";" -> "SEMICOLON"
      [] c = "=" -> "ASSIGN"
      [] c = "+" -> "PLUS"
      [] c = "-" -> "MINUS"
      [] c = "*" -> "MULT"
      [] c = "/" -> "DIV"
      [] c = "(" -> "LPAREN"
      [] c = ")" -> "RPAREN"]

----------------------------------------------------------------------------
(* Inputs: the texts main() may read. *)

\* the characters of the exhaustively enumerated texts: two whitespace
\* characters, the comment/division character, a letter, a digit, two
\* single-character tokens and a character no rule accepts
Alphabet == {" ", "\n", "/", "x", "1", ";", "=", "@"}

\* the concrete inputs of the specification's scenarios, and a few longer programs
SampleTexts == {
    <<"i","n","t"," ","x",";"," ","x"," ","="," ","3"," ","+"," ","4",";"," ",
      "p","r","i","n","t","(","x",")",";">>,
    <<"i","n","t"," ","x">>,
    <<"x"," ","="," ","1"," ","+"," ",";">>,
    <<"@","x"," ","="," ","1",";">>,
    <<"/","/"," ","j","u","s","t"," ","a"," ","c","o","m","m","e","n","t","\n">>,
    <<"i","n","t"," ","x",";"," ","i","n","t"," ","x",";">>,
    <<"i","n","t","x"," ","="," ","p","r","i","n","t","1",";">>,
    <<"_","a","1","\t","=","\r","\n","(","2","-","y",")","*","z","/","7",";",
      " ","/","/","@","\n","p","r","i","n","t","(","_","a","1",")",";">>,
    <<"x","=","1",";"," ","/","/","@","\n","y","=","x"," ","#">> }

Texts == UNION {[1..n -> Alphabet] : n \in 0..MaxLen} \cup SampleTexts

----------------------------------------------------------------------------
(* Lexer.  A lexer position is a record [pos, line, column].               *)

LexerAt(p, ln, col) == [pos |-> p, line |-> ln, column |-> col]

Lexer_current_char(t, L) == IF L.pos >= Len(t) THEN None ELSE t[L.pos + 1]

\* a variant of _advance that keeps counting columns across a newline
Lexer_advance_no_reset(t, L) ==
    LET ch == Lexer_current_char(t, L)
    IN  IF ch = "\n"
        THEN LexerAt(L.pos + 1, L.line + 1, L.column + 1)
        ELSE LexerAt(L.pos + 1, L.line, L.column + 1)

Lexer_advance(t, L) ==
    LET ch == Lexer_current_char(t, L)
    IN  IF ch = "\n"
        THEN LexerAt(L.pos + 1, L.line + 1, 1)
        ELSE LexerAt(L.pos + 1, L.line, L.column + 1)

Lexer_peek(t, L) == IF L.pos + 1 >= Len(t) THEN None ELSE t[L.pos + 2]

RECURSIVE Lexer_skip_whitespace(_, _)
Lexer_skip_whitespace(t, L) ==
    LET ch == Lexer_current_char(t, L)
    IN  IF ch # None /\ ch \in WhitespaceChars
        THEN Lexer_skip_whitespace(t, Lexer_advance(t, L))
        ELSE L

\* a variant of _skip_comment that also stops at a space
RECURSIVE Lexer_skip_comment_to_space(_, _)
Lexer_skip_comment_to_space(t, L) ==
    LET ch == Lexer_current_char(t, L)
    IN  IF ch = None \/ ch = "\n" \/ ch = " "
        THEN L
        ELSE Lexer_skip_comment_to_space(t, Lexer_advance(t, L))

RECURSIVE Lexer_skip_comment(_, _)
Lexer_skip_comment(t, L) ==
    LET ch == Lexer_current_char(t, L)
    IN  IF ch = None \/ ch = "\n"
        THEN L
        ELSE Lexer_skip_comment(t, Lexer_advance(t, L))

\* the while loop shared by _identifier_or_keyword and _number: append the
\* characters of `class` to result, advancing; yields [result, lexer]
RECURSIVE Lexer_scan(_, _, _, _)
Lexer_scan(t, L, result, class) ==
    LET ch == Lexer_current_char(t, L)
    IN  IF ch # None /\ ch \in class
        THEN Lexer_scan(t, Lexer_advance(t, L), Append(result, ch), class)
        ELSE [result |-> result, lexer |-> L]

\* a variant of _identifier_or_keyword whose loop tests isalpha() instead of
\* isalnum()
Lexer_identifier_or_keyword_isalpha(t, L) ==
    LET r == Lexer_scan(t, L, <<>>, Letters \cup {"_"})
        token_type == IF r.result \in DOMAIN KEYWORDS THEN KEYWORDS[r.result] ELSE "ID"
    IN  [token |-> Token(token_type, r.result, L.line, L.column), lexer |-> r.lexer]

Lexer_identifier_or_keyword(t, L) ==
    LET r == Lexer_scan(t, L, <<>>, Letters \cup Digits \cup {"_"})
        token_type == IF r.result \in DOMAIN KEYWORDS THEN KEYWORDS[r.result] ELSE "ID"
    IN  [token |-> Token(token_type, r.result, L.line, L.column), lexer |-> r.lexer]

Lexer_number(t, L) ==
    LET r == Lexer_scan(t, L, <<>>, Digits)
    IN  [token |-> Token("NUMBER", r.result, L.line, L.column), lexer |-> r.lexer]

\* a variant of the comment test that does not look at the second character
IsCommentStart_no_peek(t, L) == Lexer_current_char(t, L) = "/"

\* the test of get_tokens for a comment: ch == '/' and self._peek() == '/'
IsCommentStart(t, L) == Lexer_current_char(t, L) = "/" /\ Lexer_peek(t, L) = "/"

\* where one iteration of the main loop of get_tokens stands after _skip_whitespace
LexerHere == Lexer_skip_whitespace(text, LexerAt(lexer_pos, line, column))

SetLexer(L) ==
    /\ lexer_pos' = L.pos
    /\ line' = L.line
    /\ column' = L.column

Lexer_init(t) ==
    /\ text' = t
    /\ lexer_pos' = 0
    /\ line' = 1
    /\ column' = 1
    /\ lexer_tokens' = <<>>
    /\ lexer_error' = NoError

\* a variant of the comment iteration that consumes the two slashes and
\* forgets to call _skip_comment
get_tokens_comment_no_skip ==
    /\ mpc = "lex"
    /\ LET L == LexerHere
           ch == Lexer_current_char(text, L)
       IN  /\ ch # None
           /\ IsCommentStart(text, L)
           /\ SetLexer(Lexer_advance(text, Lexer_advance(text, L)))
    /\ UNCHANGED <<text, lexer_tokens, lexer_error, main_vars, parser_vars>>

\* one iteration that skips a // comment
get_tokens_comment ==
    /\ mpc = "lex"
    /\ LET L == LexerHere
           ch == Lexer_current_char(text, L)
       IN  /\ ch # None
           /\ IsCommentStart(text, L)
           /\ SetLexer(Lexer_skip_comment(text, Lexer_advance(text, Lexer_advance(text, L))))
    /\ UNCHANGED <<text, lexer_tokens, lexer_error, main_vars, parser_vars>>

\* one iteration that appends an identifier or keyword
get_tokens_identifier ==
    /\ mpc = "lex"
    /\ LET L == LexerHere
           ch == Lexer_current_char(text, L)
       IN  /\ ch # None
           /\ ~IsCommentStart(text, L)
           /\ ch \in Letters \cup {"_"}
           /\ LET r == Lexer_identifier_or_keyword(text, L)
              IN  /\ lexer_tokens' = Append(lexer_tokens, r.token)
                  /\ SetLexer(r.lexer)
    /\ UNCHANGED <<text, lexer_error, main_vars, parser_vars>>

\* one iteration that appends a number
get_tokens_number ==
    /\ mpc = "lex"
    /\ LET L == LexerHere
           ch == Lexer_current_char(text, L)
       IN  /\ ch # None
           /\ ~IsCommentStart(text, L)
           /\ ch \notin Letters \cup {"_"}
           /\ ch \in Digits
           /\ LET r == Lexer_number(text, L)
              IN  /\ lexer_tokens' = Append(lexer_tokens, r.token)
                  /\ SetLexer(r.lexer)
    /\ UNCHANGED <<text, lexer_error, main_vars, parser_vars>>

\* a variant of the single-character iteration that forgets self._advance()
get_tokens_single_no_advance ==
    /\ mpc = "lex"
    /\ LET L == LexerHere
           ch == Lexer_current_char(text, L)
       IN  /\ ch # None
           /\ ~IsCommentStart(text, L)
           /\ ch \notin Letters \cup {"_"} \cup Digits
           /\ ch \in DOMAIN SINGLE_CHAR_TOKENS
           /\ lexer_tokens' = Append(lexer_tokens,
                                     Token(SINGLE_CHAR_TOKENS[ch], <<ch>>, L.line, L.column))
           /\ SetLexer(L)
    /\ UNCHANGED <<text, lexer_error, main_vars, parser_vars>>

\* one iteration that appends a single-character token
get_tokens_single ==
    /\ mpc = "lex"
    /\ LET L == LexerHere
           ch == Lexer_current_char(text, L)
       IN  /\ ch # None
           /\ ~IsCommentStart(text, L)
           /\ ch \notin Letters \cup {"_"} \cup Digits
           /\ ch \in DOMAIN SINGLE_CHAR_TOKENS
           /\ lexer_tokens' = Append(lexer_tokens,
                                     Token(SINGLE_CHAR_TOKENS[ch], <<ch>>, L.line, L.column))
           /\ SetLexer(Lexer_advance(text, L))
    /\ UNCHANGED <<text, lexer_error, main_vars, parser_vars>>

\* the iteration that raises LexerError; the exception leaves get_tokens,
\* whose local token list is lost, and reaches the handler of main()
get_tokens_raise ==
    /\ mpc = "lex"
    /\ LET L == LexerHere
           ch == Lexer_current_char(text, L)
       IN  /\ ch # None
           /\ ~IsCommentStart(text, L)
           /\ ch \notin Letters \cup {"_"} \cup Digits
           /\ ch \notin DOMAIN SINGLE_CHAR_TOKENS
           /\ lexer_error' = [kind |-> "LexerError", line |-> L.line,
                              column |-> L.column, char |-> ch]
           /\ SetLexer(L)
    /\ lexer_tokens' = <<>>
    /\ mpc' = "lexer_error"
    /\ UNCHANGED <<text, argc, file_exists, exit_status, stdout, parser_vars>>

\* a variant of the last iteration that stamps EOF with the position held
\* before the trailing whitespace was skipped
get_tokens_return_stale_position ==
    /\ mpc = "lex"
    /\ LET L == LexerHere
       IN  /\ Lexer_current_char(text, L) = None
           /\ lexer_tokens' = Append(lexer_tokens, Token("EOF", <<>>, line, column))
           /\ SetLexer(L)
    /\ mpc' = "lexed"
    /\ UNCHANGED <<text, lexer_error, argc, file_exists, exit_status, stdout, parser_vars>>

\* the iteration that finds the input exhausted: append EOF and return
get_tokens_return ==
    /\ mpc = "lex"
    /\ LET L == LexerHere
       IN  /\ Lexer_current_char(text, L) = None
           /\ lexer_tokens' = Append(lexer_tokens, Token("EOF", <<>>, L.line, L.column))
           /\ SetLexer(L)
    /\ mpc' = "lexed"
    /\ UNCHANGED <<text, lexer_error, argc, file_exists, exit_status, stdout, parser_vars>>

----------------------------------------------------------------------------
(* Lexer(t).get_tokens() as a function of the text.                        *)

\* the main loop run to its end from lexer position L0 with the list toks;
\* yields the returned list, or the LexerError that was raised
RECURSIVE get_tokens_loop(_, _, _)
get_tokens_loop(t, L0, toks) ==
    LET L == Lexer_skip_whitespace(t, L0)
        ch == Lexer_current_char(t, L)
    IN  IF ch = None
        THEN [tokens |-> Append(toks, Token("EOF", <<>>, L.line, L.column)), error |-> NoError]
        ELSE IF IsCommentStart(t, L)
        THEN get_tokens_loop(t, Lexer_skip_comment(t, Lexer_advance(t, Lexer_advance(t, L))), toks)
        ELSE IF ch \in Letters \cup {"_"}
        THEN LET r == Lexer_identifier_or_keyword(t, L)
             IN  get_tokens_loop(t, r.lexer, Append(toks, r.token))
        ELSE IF ch \in Digits
        THEN LET r == Lexer_number(t, L)
             IN  get_tokens_loop(t, r.lexer, Append(toks, r.token))
        ELSE IF ch \in DOMAIN SINGLE_CHAR_TOKENS
        THEN get_tokens_loop(t, Lexer_advance(t, L),
                             Append(toks, Token(SINGLE_CHAR_TOKENS[ch], <<ch>>, L.line, L.column)))
        ELSE [tokens |-> <<>>,
              error |-> [kind |-> "LexerError", line |-> L.line, column |-> L.column, char |-> ch]]

get_tokens(t) == get_tokens_loop(t, LexerAt(0, 1, 1), <<>>)

-----------------------------------------------------------------------------
(* Parser: grammar symbols and the derivation trace.                       *)

TokenKinds == {"INT", "ID", "NUMBER", "PRINT", "SEMICOLON", "ASSIGN", "PLUS", "MINUS",
               "MULT", "DIV", "LPAREN", "RPAREN"}

\* the nonterminal names the parse_* methods hand to _record_derivation
Nonterminals == {"Program", "DeclList", "Decl", "StmtList", "Stmt", "Expr", "ExprPrime",
                 "Term", "TermPrime", "Factor"}

\* the display renderings of the terminals in the right-hand sides
Renderings == {"int", "id", "number", "print", ";", "=", "+", "-", "*", "/", "(", ")"}

\* the Python string of a symbol, as its characters; "epsilon" stands for the
\* one-character string of the empty production
Spelling(sym) ==
    CASE sym = "Program" -> <<"P", "r", "o", "g", "r", "a", "m">>
      [] sym = "DeclList" -> <<"D", "e", "c", "l", "L", "i", "s", "t">>
      [] sym = "Decl" -> <<"D", "e", "c", "l">>
      [] sym = "StmtList" -> <<"S", "t", "m", "t", "L", "i", "s", "t">>
      [] sym = "Stmt" -> <<"S", "t", "m", "t">>
      [] sym = "Expr" -> <<"E", "x", "p", "r">>
      [] sym = "ExprPrime" -> <<"E", "x", "p", "r", "P", "r", "i", "m", "e">>
      [] sym = "Term" -> <<"T", "e", "r", "m">>
      [] sym = "TermPrime" -> <<"T", "e", "r", "m", "P", "r", "i", "m", "e">>
      [] sym = "Factor" -> <<"F", "a", "c", "t", "o", "r">>
      [] sym = "int" -> <<"i", "n", "t">>
      [] sym = "id" -> <<"i", "d">>
      [] sym = "number" -> <<"n", "u", "m", "b", "e", "r">>
      [] sym = "print" -> <<"p", "r", "i", "n", "t">>
      [] sym = ";" -> <<";">>
      [] sym = "=" -> <<"=">>
      [] sym = "+" -> <<"+">>
      [] sym = "-" -> <<"-">>
      [] sym = "*" -> <<"*">>
      [] sym = "/" -> <<"/">>
      [] sym = "(" -> <<"(">>
      [] sym = ")" -> <<")">>
      [] sym = "epsilon" -> <<"epsilon">>

\* a variant of the join that leaves out the separating space
RECURSIVE Join_no_separator(_)
Join_no_separator(form) ==
    IF form = <<>> THEN <<>>
    ELSE Spelling(form[1]) \o Join_no_separator(Tail(form))

\* " ".join(form)
RECURSIVE Join(_)
Join(form) ==
    IF form = <<>> THEN <<>>
    ELSE IF Len(form) = 1 THEN Spelling(form[1])
    ELSE Spelling(form[1]) \o <<" ">> \o Join(Tail(form))

\* list.index(x): the 1-based place of the first x, 0 where Python raises ValueError
Index(form, x) ==
    IF \E i \in 1..Len(form) : form[i] = x
    THEN CHOOSE i \in 1..Len(form) : form[i] = x /\ \A j \in 1..(i - 1) : form[j] # x
    ELSE 0

\* list.index read from the right: the place of the last x
IndexLast(form, x) ==
    IF \E i \in 1..Len(form) : form[i] = x
    THEN CHOOSE i \in 1..Len(form) : form[i] = x /\ \A j \in (i + 1)..Len(form) : form[j] # x
    ELSE 0

\* a variant of _record_derivation that replaces the last occurrence of the
\* nonterminal instead of the first
Parser_record_derivation_last(form, steps, nonterminal, rhs) ==
    LET idx == IndexLast(form, nonterminal)
        new_form == IF rhs = <<"epsilon">>
                    THEN SubSeq(form, 1, idx - 1) \o SubSeq(form, idx + 1, Len(form))
                    ELSE SubSeq(form, 1, idx - 1) \o rhs \o SubSeq(form, idx + 1, Len(form))
    IN  IF idx = 0
        THEN [sentential_form |-> form, derivation_steps |-> steps]
        ELSE [sentential_form |-> new_form, derivation_steps |-> Append(steps, Join(new_form))]

Parser_record_derivation(form, steps, nonterminal, rhs) ==
    LET idx == Index(form, nonterminal)
        new_form == IF rhs = <<"epsilon">>
                    THEN SubSeq(form, 1, idx - 1) \o SubSeq(form, idx + 1, Len(form))
                    ELSE SubSeq(form, 1, idx - 1) \o rhs \o SubSeq(form, idx + 1, Len(form))
    IN  IF idx = 0
        THEN [sentential_form |-> form, derivation_steps |-> steps]
        ELSE [sentential_form |-> new_form, derivation_steps |-> Append(steps, Join(new_form))]

----------------------------------------------------------------------------
(* Parser: control.  The stack holds what is left to run: calls of parse_* *)
(* methods, calls of _match, and the rest of parse() after parse_program.  *)

Call(method) == [op |-> "call", arg |-> method]
Match(token_type) == [op |-> "match", arg |-> token_type]
Absent == "absent"

\* an item of the stack: the call, together with the token index at which
\* the calling method was entered and the name of that method
Frame(item, p, caller) == [op |-> item.op, arg |-> item.arg, at |-> p, by |-> caller]

Top == Head(stack)
Running(item) ==
    /\ parser_state = "running" /\ stack # <<>>
    /\ Top.op = item.op /\ Top.arg = item.arg

Parser_init(toks) ==
    /\ tokens' = toks
    /\ pos' = 0
    /\ current' = toks[1]
    /\ sentential_form' = <<"Program">>
    /\ derivation_steps' = <<Spelling("Program")>>
    /\ stack' = <<Frame(Call("parse"), 0, "main")>>
    /\ parser_state' = "running"
    /\ parser_error' = NoError
    /\ record_calls' = 0

\* self._record_derivation(nonterminal, rhs)
Record(nonterminal, rhs) ==
    LET r == Parser_record_derivation(sentential_form, derivation_steps, nonterminal, rhs)
    IN  /\ sentential_form' = r.sentential_form
        /\ derivation_steps' = r.derivation_steps
        /\ record_calls' = record_calls + 1

\* the body of the method goes on with `body`, then returns to its caller
Continue(body) ==
    stack' = [i \in 1..Len(body) |-> Frame(body[i], pos, Top.arg)] \o Tail(stack)

\* raise ParserError(...): the exception unwinds every frame of the parser
Raise(err) ==
    /\ parser_error' = err
    /\ parser_state' = "error"
    /\ stack' = <<>>

Parser_advance ==
    IF current.type # "EOF"
    THEN pos' = pos + 1 /\ current' = tokens[pos + 2]
    ELSE UNCHANGED <<pos, current>>

\* a variant of the message of _match that prints the expected kind where
\* the kind of the current token belongs
MatchError_expected_as_found(token_type) ==
    [kind |-> "ParserError", raised_by |-> "_match", line |-> current.line,
     type |-> token_type, value |-> current.value, column |-> Absent,
     expected |-> token_type]

MatchError(token_type) ==
    [kind |-> "ParserError", raised_by |-> "_match", line |-> current.line,
     type |-> current.type, value |-> current.value, column |-> Absent,
     expected |-> token_type]

\* a variant of _match that skips the offending token before it raises
Parser_match_skip ==
    /\ parser_state = "running" /\ stack # <<>> /\ Top.op = "match"
    /\ IF current.type = Top.arg
       THEN /\ Parser_advance
            /\ Continue(<<>>)
            /\ UNCHANGED <<parser_state, parser_error>>
       ELSE /\ Raise(MatchError(Top.arg))
            /\ Parser_advance
    /\ UNCHANGED <<tokens, sentential_form, derivation_steps, record_calls, main_vars, lexer_vars>>

Parser_match ==
    /\ parser_state = "running" /\ stack # <<>> /\ Top.op = "match"
    /\ IF current.type = Top.arg
       THEN /\ Parser_advance
            /\ Continue(<<>>)
            /\ UNCHANGED <<parser_state, parser_error>>
       ELSE /\ Raise(MatchError(Top.arg))
            /\ UNCHANGED <<pos, current>>
    /\ UNCHANGED <<tokens, sentential_form, derivation_steps, record_calls, main_vars, lexer_vars>>

parse ==
    /\ Running(Call("parse"))
    /\ Continue(<<Call("parse_program"), Call("parse_check")>>)
    /\ UNCHANGED <<tokens, pos, current, sentential_form, derivation_steps, parser_state,
                   parser_error, record_calls, main_vars, lexer_vars>>

ExtraInputError ==
    [kind |-> "ParserError", raised_by |-> "parse", line |-> current.line,
     type |-> current.type, value |-> current.value, column |-> current.column,
     expected |-> Absent]

\* parse(), after parse_program has returned
parse_check ==
    /\ Running(Call("parse_check"))
    /\ IF current.type # "EOF"
       THEN Raise(ExtraInputError)
       ELSE /\ Continue(<<>>)
            /\ parser_state' = "done"
            /\ UNCHANGED parser_error
    /\ UNCHANGED <<tokens, pos, current, sentential_form, derivation_steps, record_calls,
                   main_vars, lexer_vars>>

\* what a parse_* method leaves alone when it records and goes on
RuleFrame == UNCHANGED <<tokens, pos, current, parser_state, parser_error, main_vars, lexer_vars>>
\* what a parse_* method leaves alone when it raises
RaiseFrame == UNCHANGED <<tokens, pos, current, sentential_form, derivation_steps,
                          record_calls, main_vars, lexer_vars>>

parse_program ==
    /\ Running(Call("parse_program"))
    /\ Record("Program", <<"DeclList", "StmtList">>)
    /\ Continue(<<Call("parse_decl_list"), Call("parse_stmt_list")>>)
    /\ RuleFrame

\* a variant of parse_decl_list whose epsilon branch names StmtList
parse_decl_list_wrong_name ==
    /\ Running(Call("parse_decl_list"))
    /\ IF current.type = "INT"
       THEN /\ Record("DeclList", <<"Decl", "DeclList">>)
            /\ Continue(<<Call("parse_decl"), Call("parse_decl_list")>>)
       ELSE /\ Record("StmtList", <<"epsilon">>)
            /\ Continue(<<>>)
    /\ RuleFrame

\* a variant of parse_decl_list that calls itself without calling parse_decl
parse_decl_list_no_decl ==
    /\ Running(Call("parse_decl_list"))
    /\ IF current.type = "INT"
       THEN /\ Record("DeclList", <<"Decl", "DeclList">>)
            /\ Continue(<<Call("parse_decl_list")>>)
       ELSE /\ Record("DeclList", <<"epsilon">>)
            /\ Continue(<<>>)
    /\ RuleFrame

parse_decl_list ==
    /\ Running(Call("parse_decl_list"))
    /\ IF current.type = "INT"
       THEN /\ Record("DeclList", <<"Decl", "DeclList">>)
            /\ Continue(<<Call("parse_decl"), Call("parse_decl_list")>>)
       ELSE /\ Record("DeclList", <<"epsilon">>)
            /\ Continue(<<>>)
    /\ RuleFrame

\* a variant of parse_decl whose recorded right-hand side is in another
\* order than its matches
parse_decl_swapped_rhs ==
    /\ Running(Call("parse_decl"))
    /\ Record("Decl", <<"id", "int", ";">>)
    /\ Continue(<<Match("INT"), Match("ID"), Match("SEMICOLON")>>)
    /\ RuleFrame

\* a variant of parse_decl that matches INT before it records its production
parse_decl_match_first ==
    /\ Running(Call("parse_decl"))
    /\ IF current.type = "INT"
       THEN /\ Parser_advance
            /\ Record("Decl", <<"int", "id", ";">>)
            /\ Continue(<<Match("ID"), Match("SEMICOLON")>>)
            /\ UNCHANGED <<tokens, parser_state, parser_error, main_vars, lexer_vars>>
       ELSE /\ Raise(MatchError("INT"))
            /\ RaiseFrame

parse_decl ==
    /\ Running(Call("parse_decl"))
    /\ Record("Decl", <<"int", "id", ";">>)
    /\ Continue(<<Match("INT"), Match("ID"), Match("SEMICOLON")>>)
    /\ RuleFrame

\* a variant of parse_stmt_list that forgets PRINT in its lookahead
parse_stmt_list_id_only ==
    /\ Running(Call("parse_stmt_list"))
    /\ IF current.type \in {"ID"}
       THEN /\ Record("StmtList", <<"Stmt", "StmtList">>)
            /\ Continue(<<Call("parse_stmt"), Call("parse_stmt_list")>>)
       ELSE /\ Record("StmtList", <<"epsilon">>)
            /\ Continue(<<>>)
    /\ RuleFrame

parse_stmt_list ==
    /\ Running(Call("parse_stmt_list"))
    /\ IF current.type \in {"ID", "PRINT"}
       THEN /\ Record("StmtList", <<"Stmt", "StmtList">>)
            /\ Continue(<<Call("parse_stmt"), Call("parse_stmt_list")>>)
       ELSE /\ Record("StmtList", <<"epsilon">>)
            /\ Continue(<<>>)
    /\ RuleFrame

StmtError ==
    [kind |-> "ParserError", raised_by |-> "parse_stmt", line |-> current.line,
     type |-> current.type, value |-> Absent, column |-> Absent,
     expected |-> "ID or PRINT"]

parse_stmt ==
    /\ Running(Call("parse_stmt"))
    /\ IF current.type = "ID"
       THEN /\ Record("Stmt", <<"id", "=", "Expr", ";">>)
            /\ Continue(<<Match("ID"), Match("ASSIGN"), Call("parse_expr"), Match("SEMICOLON")>>)
            /\ RuleFrame
       ELSE IF current.type = "PRINT"
       THEN /\ Record("Stmt", <<"print", "(", "id", ")", ";">>)
            /\ Continue(<<Match("PRINT"), Match("LPAREN"), Match("ID"), Match("RPAREN"),
                          Match("SEMICOLON")>>)
            /\ RuleFrame
       ELSE /\ Raise(StmtError)
            /\ RaiseFrame

\* a variant of parse_expr that hands the name Term to _record_derivation
parse_expr_wrong_name ==
    /\ Running(Call("parse_expr"))
    /\ Record("Term", <<"Term", "ExprPrime">>)
    /\ Continue(<<Call("parse_term"), Call("parse_expr_prime")>>)
    /\ RuleFrame

parse_expr ==
    /\ Running(Call("parse_expr"))
    /\ Record("Expr", <<"Term", "ExprPrime">>)
    /\ Continue(<<Call("parse_term"), Call("parse_expr_prime")>>)
    /\ RuleFrame

parse_expr_prime ==
    /\ Running(Call("parse_expr_prime"))
    /\ IF current.type = "PLUS"
       THEN /\ Record("ExprPrime", <<"+", "Term", "ExprPrime">>)
            /\ Continue(<<Match("PLUS"), Call("parse_term"), Call("parse_expr_prime")>>)
       ELSE IF current.type = "MINUS"
       THEN /\ Record("ExprPrime", <<"-", "Term", "ExprPrime">>)
            /\ Continue(<<Match("MINUS"), Call("parse_term"), Call("parse_expr_prime")>>)
       ELSE /\ Record("ExprPrime", <<"epsilon">>)
            /\ Continue(<<>>)
    /\ RuleFrame

parse_term ==
    /\ Running(Call("parse_term"))
    /\ Record("Term", <<"Factor", "TermPrime">>)
    /\ Continue(<<Call("parse_factor"), Call("parse_term_prime")>>)
    /\ RuleFrame

\* a variant of parse_term_prime that does not record its epsilon production
parse_term_prime_silent_epsilon ==
    /\ Running(Call("parse_term_prime"))
    /\ IF current.type = "MULT"
       THEN /\ Record("TermPrime", <<"*", "Factor", "TermPrime">>)
            /\ Continue(<<Match("MULT"), Call("parse_factor"), Call("parse_term_prime")>>)
       ELSE IF current.type = "DIV"
       THEN /\ Record("TermPrime", <<"/", "Factor", "TermPrime">>)
            /\ Continue(<<Match("DIV"), Call("parse_factor"), Call("parse_term_prime")>>)
       ELSE /\ Continue(<<>>)
            /\ UNCHANGED <<sentential_form, derivation_steps, record_calls>>
    /\ RuleFrame

parse_term_prime ==
    /\ Running(Call("parse_term_prime"))
    /\ IF current.type = "MULT"
       THEN /\ Record("TermPrime", <<"*", "Factor", "TermPrime">>)
            /\ Continue(<<Match("MULT"), Call("parse_factor"), Call("parse_term_prime")>>)
       ELSE IF current.type = "DIV"
       THEN /\ Record("TermPrime", <<"/", "Factor", "TermPrime">>)
            /\ Continue(<<Match("DIV"), Call("parse_factor"), Call("parse_term_prime")>>)
       ELSE /\ Record("TermPrime", <<"epsilon">>)
            /\ Continue(<<>>)
    /\ RuleFrame

FactorError ==
    [kind |-> "ParserError", raised_by |-> "parse_factor", line |-> current.line,
     type |-> current.type, value |-> Absent, column |-> Absent,
     expected |-> "ID, NUMBER, or '('"]

\* a variant of parse_factor without the NUMBER alternative
parse_factor_no_number ==
    /\ Running(Call("parse_factor"))
    /\ IF current.type = "ID"
       THEN /\ Record("Factor", <<"id">>)
            /\ Continue(<<Match("ID")>>)
            /\ RuleFrame
       ELSE IF current.type = "LPAREN"
       THEN /\ Record("Factor", <<"(", "Expr", ")">>)
            /\ Continue(<<Match("LPAREN"), Call("parse_expr"), Match("RPAREN")>>)
            /\ RuleFrame
       ELSE /\ Raise(FactorError)
            /\ RaiseFrame

parse_factor ==
    /\ Running(Call("parse_factor"))
    /\ IF current.type = "ID"
       THEN /\ Record("Factor", <<"id">>)
            /\ Continue(<<Match("ID")>>)
            /\ RuleFrame
       ELSE IF current.type = "NUMBER"
       THEN /\ Record("Factor", <<"number">>)
            /\ Continue(<<Match("NUMBER")>>)
            /\ RuleFrame
       ELSE IF current.type = "LPAREN"
       THEN /\ Record("Factor", <<"(", "Expr", ")">>)
            /\ Continue(<<Match("LPAREN"), Call("parse_expr"), Match("RPAREN")>>)
            /\ RuleFrame
       ELSE /\ Raise(FactorError)
            /\ RaiseFrame

----------------------------------------------------------------------------
(* Inputs: the token lists a caller may hand to Parser.                    *)

\* a lexeme of each kind, as Lexer would have read it
Lexeme(type) ==
    CASE type = "INT" -> <<"i", "n", "t">>
      [] type = "PRINT" -> <<"p", "r", "i", "n", "t">>
      [] type = "ID" -> <<"x">>
      [] type = "NUMBER" -> <<"1">>
      [] type = "SEMICOLON" -> <<";">>
      [] type = "ASSIGN" -> <<"=">>
      [] type = "PLUS" -> <<"+">>
      [] type = "MINUS" -> <<"-">>
      [] type = "MULT" -> <<"*">>
      [] type = "DIV" -> <<"/">>
      [] type = "LPAREN" -> <<"(">>
      [] type = "RPAREN" -> <<")">>

\* the token list of the kinds, one token per line, closed by the EOF token
\* that stands right after the last lexeme
TokensOf(kinds) ==
    LET n == Len(kinds)
    IN  [i \in 1..(n + 1) |->
            IF i <= n THEN Token(kinds[i], Lexeme(kinds[i]), i, 1)
            ELSE IF n = 0 THEN Token("EOF", <<>>, 1, 1)
            ELSE Token("EOF", <<>>, n, 1 + Len(Lexeme(kinds[n])))]

\* longer programs: the scenario of the specification, nested and chained
\* expressions, repeated declarations and statements
SampleKinds == {
    <<"INT", "ID", "SEMICOLON", "ID", "ASSIGN", "NUMBER", "PLUS", "NUMBER", "SEMICOLON",
      "PRINT", "LPAREN", "ID", "RPAREN", "SEMICOLON">>,
    <<"ID", "ASSIGN", "LPAREN", "NUMBER", "MULT", "ID", "RPAREN", "DIV", "ID", "MINUS",
      "NUMBER", "SEMICOLON">>,
    <<"INT", "ID", "SEMICOLON", "INT", "ID", "SEMICOLON", "ID", "ASSIGN", "ID", "SEMICOLON",
      "ID", "ASSIGN", "LPAREN", "LPAREN", "ID", "RPAREN", "RPAREN", "SEMICOLON">> }

\* a sample, each of its prefixes, and each list that differs from it in one token
Variants(s) ==
    {SubSeq(s, 1, n) : n \in 0..Len(s)}
        \cup {[s EXCEPT ![i] = k] : i \in 1..Len(s), k \in TokenKinds}

KindLists ==
    UNION {[1..n -> TokenKinds] : n \in 0..MaxTokens}
        \cup UNION {Variants(s) : s \in SampleKinds}

TokenLists == {TokensOf(kinds) : kinds \in KindLists}

----------------------------------------------------------------------------
(* main() *)

\* the arguments of sys.exit
EXIT_USAGE == 1
EXIT_FILE_NOT_FOUND == 1
EXIT_LEXER_ERROR == 1
EXIT_PARSER_ERROR == 1

Printed(tag, data) == [print |-> tag, data |-> data]
Exit(status) == exit_status' = status /\ mpc' = "exited"

\* lines 383-386
main_args ==
    /\ mpc = "start"
    /\ IF argc < 2
       THEN /\ stdout' = stdout \o <<Printed("usage", <<>>), Printed("usage_example", <<>>)>>
            /\ Exit(EXIT_USAGE)
       ELSE /\ mpc' = "open"
            /\ UNCHANGED <<stdout, exit_status>>
    /\ UNCHANGED <<argc, file_exists, lexer_vars, parser_vars>>

\* lines 388-398: read the file and construct the Lexer
main_open ==
    /\ mpc = "open"
    /\ IF file_exists
       THEN /\ \E t \in Texts : Lexer_init(t)
            /\ mpc' = "lex"
            /\ UNCHANGED <<stdout, exit_status>>
       ELSE /\ stdout' = Append(stdout, Printed("file_not_found", <<>>))
            /\ Exit(EXIT_FILE_NOT_FOUND)
            /\ UNCHANGED lexer_vars
    /\ UNCHANGED <<argc, file_exists, parser_vars>>

\* lines 401-407: print the token kinds, construct the Parser and call parse()
main_parser ==
    /\ mpc = "lexed"
    /\ stdout' = stdout \o <<Printed("token_header", <<>>),
                             Printed("token_stream",
                                     [i \in 1..Len(lexer_tokens) |-> lexer_tokens[i].type])>>
    /\ Parser_init(lexer_tokens)
    /\ mpc' = "parse"
    /\ UNCHANGED <<argc, file_exists, exit_status, lexer_vars>>

\* lines 409-415: parse() returned; main() returns and the process exits 0
main_success ==
    /\ mpc = "parse" /\ parser_state = "done"
    /\ stdout' = stdout \o <<Printed("success", <<>>), Printed("derivation_header", <<>>),
                             Printed("derivation", derivation_steps)>>
    /\ Exit(0)
    /\ UNCHANGED <<argc, file_exists, lexer_vars, parser_vars>>

\* lines 417-419
main_except_lexer ==
    /\ mpc = "lexer_error"
    /\ stdout' = Append(stdout, Printed("error", <<lexer_error>>))
    /\ Exit(EXIT_LEXER_ERROR)
    /\ UNCHANGED <<argc, file_exists, lexer_vars, parser_vars>>

\* a variant of the ParserError handler that prints the message and falls
\* off the end of main() without calling sys.exit
main_except_parser_no_exit ==
    /\ mpc = "parse" /\ parser_state = "error"
    /\ stdout' = Append(stdout, Printed("error", <<parser_error>>))
    /\ Exit(0)
    /\ UNCHANGED <<argc, file_exists, lexer_vars, parser_vars>>

\* lines 420-422
main_except_parser ==
    /\ mpc = "parse" /\ parser_state = "error"
    /\ stdout' = Append(stdout, Printed("error", <<parser_error>>))
    /\ Exit(EXIT_PARSER_ERROR)
    /\ UNCHANGED <<argc, file_exists, lexer_vars, parser_vars>>

----------------------------------------------------------------------------
(* Specifications. *)

ParserIdle ==
    /\ tokens = <<>>
    /\ pos = 0
    /\ current = NoToken
    /\ sentential_form = <<>>
    /\ derivation_steps = <<>>
    /\ stack = <<>>
    /\ parser_state = "idle"
    /\ parser_error = NoError
    /\ record_calls = 0

LexerIdle ==
    /\ text = <<>>
    /\ lexer_pos = 0
    /\ line = 1
    /\ column = 1
    /\ lexer_tokens = <<>>
    /\ lexer_error = NoError

\* the process starts main() with or without a file argument, naming a file
\* that exists or not
Init ==
    /\ mpc = "start"
    /\ argc \in {1, 2}
    /\ file_exists \in BOOLEAN
    /\ exit_status = NoStatus
    /\ stdout = <<>>
    /\ LexerIdle
    /\ ParserIdle

LexerNext ==
    \/ get_tokens_comment
    \/ get_tokens_identifier
    \/ get_tokens_number
    \/ get_tokens_single
    \/ get_tokens_raise
    \/ get_tokens_return

ParserNext ==
    \/ parse
    \/ parse_check
    \/ parse_program
    \/ parse_decl_list
    \/ parse_decl
    \/ parse_stmt_list
    \/ parse_stmt
    \/ parse_expr
    \/ parse_expr_prime
    \/ parse_term
    \/ parse_term_prime
    \/ parse_factor
    \/ Parser_match

MainNext ==
    \/ main_args
    \/ main_open
    \/ main_parser
    \/ main_success
    \/ main_except_lexer
    \/ main_except_parser

Next == MainNext \/ LexerNext \/ ParserNext

\* the whole program: main() on any text of Texts
Spec == Init /\ [][Next]_vars

\* Parser(tokens).parse() on any token list of TokenLists
InitParse ==
    /\ mpc = "parse"
    /\ argc = 2
    /\ file_exists = TRUE
    /\ exit_status = NoStatus
    /\ stdout = <<>>
    /\ LexerIdle
    /\ \E toks \in TokenLists :
        /\ tokens = toks
        /\ pos = 0
        /\ current = toks[1]
    /\ sentential_form = <<"Program">>
    /\ derivation_steps = <<Spelling("Program")>>
    /\ stack = <<Frame(Call("parse"), 0, "main")>>
    /\ parser_state = "running"
    /\ parser_error = NoError
    /\ record_calls = 0

SpecParse == InitParse /\ [][ParserNext]_vars

\* the same, run to its end: Python executes the next statement of parse()
\* as long as there is one
SpecParseFair == SpecParse /\ WF_vars(ParserNext)

\* the last entry of the trace of an accepted list is handed, as a text, to
\* Lexer(...).get_tokens(), and the list it returns to a new Parser
round_trip ==
    /\ mpc = "parse" /\ parser_state = "done"
    /\ lexer_tokens = <<>> /\ lexer_error = NoError
    /\ LET t == derivation_steps[Len(derivation_steps)]
           r == get_tokens(t)
       IN  /\ text' = t
           /\ lexer_tokens' = r.tokens
           /\ lexer_error' = r.error
           /\ IF r.error = NoError
              THEN /\ lexer_pos' = Len(t)
                   /\ line' = r.tokens[Len(r.tokens)].line
                   /\ column' = r.tokens[Len(r.tokens)].column
                   /\ Parser_init(r.tokens)
                   /\ UNCHANGED mpc
              ELSE /\ mpc' = "lexer_error"
                   /\ UNCHANGED <<lexer_pos, line, column, parser_vars>>
    /\ UNCHANGED <<argc, file_exists, exit_status, stdout>>

RoundTripNext == ParserNext \/ round_trip

\* Parser(tokens).parse() on any token list of TokenLists and, when it
\* accepts, the tokenizer and the parser again on the last entry of its trace
SpecRoundTrip == InitParse /\ [][RoundTripNext]_vars

----------------------------------------------------------------------------
(* The grammar of the Parser docstring, as data, and the language it       *)
(* generates; terminals are token kinds.                                   *)

Productions ==
    [N \in Nonterminals |->
        CASE N = "Program" -> {<<"DeclList", "StmtList">>}
          [] N = "DeclList" -> {<<"Decl", "DeclList">>, <<>>}
          [] N = "Decl" -> {<<"INT", "ID", "SEMICOLON">>}
          [] N = "StmtList" -> {<<"Stmt", "StmtList">>, <<>>}
          [] N = "Stmt" -> {<<"ID", "ASSIGN", "Expr", "SEMICOLON">>,
                            <<"PRINT", "LPAREN", "ID", "RPAREN", "SEMICOLON">>}
          [] N = "Expr" -> {<<"Term", "ExprPrime">>}
          [] N = "ExprPrime" -> {<<"PLUS", "Term", "ExprPrime">>,
                                 <<"MINUS", "Term", "ExprPrime">>, <<>>}
          [] N = "Term" -> {<<"Factor", "TermPrime">>}
          [] N = "TermPrime" -> {<<"MULT", "Factor", "TermPrime">>,
                                 <<"DIV", "Factor", "TermPrime">>, <<>>}
          [] N = "Factor" -> {<<"ID">>, <<"NUMBER">>, <<"LPAREN", "Expr", "RPAREN">>}]

\* the symbols syms derive exactly the kinds w
RECURSIVE Derives(_, _)
Derives(syms, w) ==
    IF syms = <<>> THEN w = <<>>
    ELSE IF Head(syms) \in Nonterminals
    THEN \E rhs \in Productions[Head(syms)] : Derives(rhs \o Tail(syms), w)
    ELSE w # <<>> /\ Head(w) = Head(syms) /\ Derives(Tail(syms), Tail(w))

\* the symbols syms derive some kinds that start with w (every nonterminal
\* of the grammar derives some kinds, so an unread rest can always be completed)
RECURSIVE DerivesPrefix(_, _)
DerivesPrefix(syms, w) ==
    IF w = <<>> THEN TRUE
    ELSE IF syms = <<>> THEN FALSE
    ELSE IF Head(syms) \in Nonterminals
    THEN \E rhs \in Productions[Head(syms)] : DerivesPrefix(rhs \o Tail(syms), w)
    ELSE Head(w) = Head(syms) /\ DerivesPrefix(Tail(syms), Tail(w))

Sentence(w) == Derives(<<"Program">>, w)
\* w starts a sentence followed by the end of input
SentencePrefix(w) == DerivesPrefix(<<"Program", "EOF">>, w)

KindsOf(toks) == [i \in 1..Len(toks) |-> toks[i].type]
KindsBeforeEOF == SubSeq(KindsOf(tokens), 1, Len(tokens) - 1)

----------------------------------------------------------------------------
(* Claims about the Parser, under SpecParse.                               *)

\* C1: parse() returns without raising exactly when the token kinds before
\* EOF form a sentence of the grammar, and raises ParserError otherwise; it
\* never stops in between.
C1_AcceptsExactlyTheLanguage ==
    /\ parser_state = "done" => Sentence(KindsBeforeEOF) /\ parser_error = NoError
    /\ parser_state = "error" =>
            ~Sentence(KindsBeforeEOF) /\ parser_error.kind = "ParserError"
    /\ parser_state = "running" => ENABLED ParserNext

\* a parse that accepted a statement with a parenthesised factor
C1_Witness ==
    /\ parser_state = "done"
    /\ Len(tokens) > 6
    /\ \E i \in 1..Len(tokens) : tokens[i].type = "LPAREN" /\ tokens[i + 1].type # "ID"

\* C5: when the parser fails, the reported token is the first mismatch: the
\* kinds before it start a sentence, the kinds up to and including it start
\* none (for a reported EOF: the kinds before it are no sentence), and the
\* token index stands exactly on it.
C5_FailsAtFirstMismatch ==
    parser_state = "error" =>
        /\ pos + 1 \in 1..Len(tokens)
        /\ current = tokens[pos + 1]
        /\ parser_error.line = tokens[pos + 1].line
        /\ parser_error.type = tokens[pos + 1].type
        /\ SentencePrefix(SubSeq(KindsOf(tokens), 1, pos))
        /\ ~SentencePrefix(SubSeq(KindsOf(tokens), 1, pos + 1))

\* a failure inside a nested expression, after several tokens were consumed
C5_Witness ==
    /\ parser_state = "error"
    /\ pos >= 5
    /\ parser_error.raised_by = "parse_factor"
    /\ current.type # "EOF"


\* C2: in every state of a parse (running, succeeded or failed) the trace
\* holds one entry for the start symbol and one per call of
\* _record_derivation made so far.
C2_TraceLength ==
    parser_state # "idle" => Len(derivation_steps) = 1 + record_calls

\* a failed parse that had applied several productions
C2_Witness ==
    /\ parser_state = "error"
    /\ record_calls >= 8
    /\ Len(derivation_steps) = 9

\* the place of the leftmost nonterminal of a form, 0 if it has none
LeftmostNonterminal(form) ==
    IF \E i \in 1..Len(form) : form[i] \in Nonterminals
    THEN CHOOSE i \in 1..Len(form) :
            form[i] \in Nonterminals /\ \A j \in 1..(i - 1) : form[j] \notin Nonterminals
    ELSE 0

\* new is old with the symbol at place i replaced by some symbols (or by none)
ReplacedAt(old, new, i) ==
    /\ i \in 1..Len(old)
    /\ Len(new) >= Len(old) - 1
    /\ SubSeq(new, 1, i - 1) = SubSeq(old, 1, i - 1)
    /\ SubSeq(new, Len(new) - (Len(old) - i) + 1, Len(new)) = SubSeq(old, i + 1, Len(old))

\* C3: every call of _record_derivation replaces the leftmost nonterminal of
\* the sentential form: the symbols to its left are terminals and stay, the
\* symbols to its right stay.
C3_LeftmostDerivation ==
    [][record_calls' # record_calls =>
          /\ sentential_form' # sentential_form
          /\ ReplacedAt(sentential_form, sentential_form',
                        LeftmostNonterminal(sentential_form))
          /\ Index(sentential_form, sentential_form[LeftmostNonterminal(sentential_form)])
                = LeftmostNonterminal(sentential_form)]_vars

\* an expansion has just been recorded behind terminals already matched,
\* with further nonterminals waiting to its right
C3_Witness ==
    /\ parser_state = "running"
    /\ record_calls >= 6
    /\ LeftmostNonterminal(sentential_form) >= 4
    /\ \E i \in 1..Len(sentential_form) :
          i > LeftmostNonterminal(sentential_form) /\ sentential_form[i] \in Nonterminals
    /\ stack # <<>> /\ Top.op = "match"

\* str.split(" ") restricted to what " ".join yields: the maximal runs of
\* characters other than the space
RECURSIVE SplitFrom(_, _, _)
SplitFrom(s, word, words) ==
    IF s = <<>> THEN (IF word = <<>> THEN words ELSE Append(words, word))
    ELSE IF Head(s) = " "
    THEN SplitFrom(Tail(s), <<>>, IF word = <<>> THEN words ELSE Append(words, word))
    ELSE SplitFrom(Tail(s), Append(word, Head(s)), words)
Words(s) == SplitFrom(s, <<>>, <<>>)

Last(seq) == seq[Len(seq)]

\* C4: the first trace entry is the start symbol "Program" alone, and after
\* a successful parse the last entry (and the sentential form) holds terminal
\* renderings only.
C4_FirstAndLastEntry ==
    parser_state # "idle" =>
        /\ derivation_steps[1] = <<"P", "r", "o", "g", "r", "a", "m">>
        /\ parser_state = "done" =>
            /\ \A i \in 1..Len(sentential_form) : sentential_form[i] \notin Nonterminals
            /\ LET words == Words(Last(derivation_steps))
               IN  \A i \in 1..Len(words) :
                      /\ words[i] \in {Spelling(r) : r \in Renderings}
                      /\ words[i] \notin {Spelling(N) : N \in Nonterminals}

\* a successful parse of declarations and statements together
C4_Witness ==
    /\ parser_state = "done"
    /\ Len(Words(Last(derivation_steps))) >= 14
    /\ Len(derivation_steps) > 20

----------------------------------------------------------------------------
(* Claims about main() and the Lexer, under Spec.                          *)

\* how a finished run of main() ended
Outcome ==
    IF argc < 2 THEN "usage"
    ELSE IF ~file_exists THEN "file_not_found"
    ELSE IF lexer_error # NoError \/ parser_state = "error" THEN "failure"
    ELSE "success"

\* C7 as stated: success exits 0, a lexical or syntax failure exits with a
\* non-zero status, and file-not-found exits with a status different from both.
C7_Original ==
    mpc = "exited" =>
        /\ Outcome = "success" => exit_status = 0
        /\ Outcome = "failure" => exit_status # 0
        /\ Outcome = "file_not_found" =>
              exit_status \notin {0, EXIT_LEXER_ERROR, EXIT_PARSER_ERROR}

\* C7 as amended: success exits 0; a lexical or syntax failure and the
\* file-not-found condition all exit with the same non-zero status 1, so
\* the status tells success from the rest and only the printed message
\* tells file-not-found from a lexical or syntax failure.
C7_ExitStatus ==
    mpc = "exited" =>
        /\ exit_status = 0 <=> Outcome = "success"
        /\ Outcome = "failure" =>
              /\ exit_status = 1
              /\ Last(stdout).print = "error"
        /\ Outcome = "file_not_found" =>
              /\ exit_status = 1
              /\ exit_status \in {EXIT_LEXER_ERROR, EXIT_PARSER_ERROR}
              /\ Last(stdout).print = "file_not_found"

\* a run that found no file and exited with the status of a syntax error
C7_Witness ==
    /\ mpc = "exited"
    /\ Outcome = "file_not_found"
    /\ exit_status = EXIT_PARSER_ERROR
    /\ Last(stdout).print = "file_not_found"

\* get_tokens has returned its list
GetTokensReturned == mpc \in {"lexed", "parse"} \/ (mpc = "exited" /\ parser_state # "idle")

\* the line and the column of the character that follows the first o
\* characters of t: one more than the newlines among them, and one more than
\* the characters after the last of these newlines
Max(S) == CHOOSE m \in S : \A x \in S : x <= m
Min(S) == CHOOSE m \in S : \A x \in S : m <= x
LineOf(t, o) == 1 + Cardinality({j \in 1..o : t[j] = "\n"})
ColumnOf(t, o) == 1 + o - Max({0} \cup {j \in 1..o : t[j] = "\n"})

\* C8: the list get_tokens returns ends with exactly one EOF token, with an
\* empty lexeme, placed right after the last character of the input.
C8_EndsWithOneEOF ==
    GetTokensReturned =>
        LET n == Len(lexer_tokens)
        IN  /\ n >= 1
            /\ lexer_tokens[n].type = "EOF"
            /\ \A i \in 1..(n - 1) : lexer_tokens[i].type # "EOF"
            /\ lexer_tokens[n].value = <<>>
            /\ lexer_tokens[n].line = LineOf(text, Len(text))
            /\ lexer_tokens[n].column = ColumnOf(text, Len(text))

\* a returned list with tokens on two lines and whitespace before the end
C8_Witness ==
    /\ mpc = "lexed"
    /\ Len(lexer_tokens) >= 3
    /\ Last(lexer_tokens).line >= 2
    /\ Len(text) >= 1 /\ Last(text) \in WhitespaceChars

\* C9: every token stands where its lexeme is found in the input: for some
\* place o of the text the lexeme is read there, line is 1 + the newlines
\* before o and column is 1 + the characters between the last such newline
\* and o; the tokens follow each other in the text without overlap.
TokenOffset(t, tok) ==
    {o \in 0..Len(t) : tok.line = LineOf(t, o) /\ tok.column = ColumnOf(t, o)}

C9_TokenPositions ==
    /\ \A i \in 1..Len(lexer_tokens) :
          LET tok == lexer_tokens[i]
              where == TokenOffset(text, tok)
          IN  /\ Cardinality(where) = 1
              /\ \A o \in where :
                    /\ o + Len(tok.value) <= Len(text)
                    /\ SubSeq(text, o + 1, o + Len(tok.value)) = tok.value
    /\ \A i \in 1..(Len(lexer_tokens) - 1) :
          \A o1 \in TokenOffset(text, lexer_tokens[i]) :
             \A o2 \in TokenOffset(text, lexer_tokens[i + 1]) :
                o1 + Len(lexer_tokens[i].value) <= o2

\* tokens on a second line, the later one not in column 1
C9_Witness ==
    /\ Len(lexer_tokens) >= 3
    /\ \E i \in 1..Len(lexer_tokens) :
          /\ lexer_tokens[i].line >= 2
          /\ lexer_tokens[i].column >= 3
          /\ lexer_tokens[i].type # "EOF"

\* the characters some rule of the lexer accepts
AcceptedChars ==
    {" ", "\t", "\r", "\n", "_", ";", "=", "+", "-", "*", "/", "(", ")"} \cup Letters \cup Digits

\* place i of t lies behind a // of its own line
InComment(t, i) ==
    \E j \in 1..(i - 1) :
        /\ t[j] = "/" /\ t[j + 1] = "/"
        /\ \A k \in j..(i - 1) : t[k] # "\n"

\* the places of the characters no rule accepts, outside every comment
Offending(t) == {i \in 1..Len(t) : t[i] \notin AcceptedChars /\ ~InComment(t, i)}

\* C10: get_tokens raises LexerError exactly when the input holds, outside
\* every // comment, a character no rule accepts; the error carries the line,
\* the column and the character of the first of them, and no token list, not
\* even a partial one, reaches the caller.
C10_LexerError ==
    /\ lexer_error # NoError =>
          /\ Offending(text) # {}
          /\ LET i == Min(Offending(text))
             IN  lexer_error = [kind |-> "LexerError", line |-> LineOf(text, i - 1),
                                column |-> ColumnOf(text, i - 1), char |-> text[i]]
          /\ lexer_tokens = <<>>
          /\ tokens = <<>>
          /\ parser_state = "idle"
          /\ \A k \in 1..Len(stdout) : stdout[k].print # "token_stream"
    /\ GetTokensReturned => Offending(text) = {} /\ lexer_error = NoError

\* an error raised after tokens had been read, on a later line, with an
\* unaccepted character inside an earlier comment
C10_Witness ==
    /\ mpc = "lexer_error"
    /\ lexer_error.line >= 2
    /\ lexer_error.column >= 2
    /\ \E i \in 1..Len(text) : text[i] \notin AcceptedChars /\ InComment(text, i)


----------------------------------------------------------------------------
(* Further claims about the whole program, under Spec.                     *)

\* C11: the parse makes no step after its first ParserError: the step that
\* raises leaves the token index, the sentential form and the trace as they
\* were, and no later step of the program changes anything of the parser,
\* the error included.
C11_FailFast ==
    [][/\ parser_state = "error" => UNCHANGED parser_vars
       /\ parser_state = "running" /\ parser_state' = "error" =>
             /\ UNCHANGED <<tokens, pos, current, sentential_form, derivation_steps,
                            record_calls>>
             /\ parser_error' # NoError
             /\ parser_error = NoError]_vars

\* main() has handled a ParserError raised by _match after tokens were
\* consumed and productions recorded
C11_Witness ==
    /\ mpc = "exited"
    /\ parser_state = "error"
    /\ parser_error.raised_by = "_match"
    /\ pos >= 2
    /\ Len(derivation_steps) >= 5

\* t holds nothing but whitespace and // comments
OnlyWhitespaceAndComments(t) ==
    \A i \in 1..Len(t) :
        \/ t[i] \in {" ", "\t", "\r", "\n"}
        \/ InComment(t, i)
        \/ (t[i] = "/" /\ i < Len(t) /\ t[i + 1] = "/")

\* C12: on an input of whitespace and comments only, get_tokens returns
\* exactly [EOF] and the parse succeeds with the four-entry trace Program,
\* "DeclList StmtList", "StmtList" and the empty string.
C12_EmptyProgram ==
    OnlyWhitespaceAndComments(text) =>
        /\ lexer_error = NoError
        /\ parser_state # "error"
        /\ GetTokensReturned =>
              /\ Len(lexer_tokens) = 1
              /\ lexer_tokens[1].type = "EOF"
        /\ parser_state = "done" =>
              derivation_steps =
                << <<"P", "r", "o", "g", "r", "a", "m">>,
                   <<"D", "e", "c", "l", "L", "i", "s", "t", " ",
                     "S", "t", "m", "t", "L", "i", "s", "t">>,
                   <<"S", "t", "m", "t", "L", "i", "s", "t">>,
                   <<>> >>
        /\ mpc = "exited" /\ argc >= 2 /\ file_exists => parser_state = "done"

\* a run over a comment followed by whitespace has ended
C12_Witness ==
    /\ mpc = "exited"
    /\ parser_state = "done"
    /\ Len(text) >= 4
    /\ OnlyWhitespaceAndComments(text)
    /\ \E i \in 1..Len(text) : InComment(text, i) /\ text[i] \notin {"/", " "}


\* how many branches of the main loop of get_tokens apply in this state
\* (for the comment branch: its test, after which it only assigns)
BranchesOpen ==
    Cardinality({b \in 1..6 :
        CASE b = 1 -> LET L == LexerHere
                      IN  Lexer_current_char(text, L) # None /\ IsCommentStart(text, L)
          [] b = 2 -> ENABLED get_tokens_identifier
          [] b = 3 -> ENABLED get_tokens_number
          [] b = 4 -> ENABLED get_tokens_single
          [] b = 5 -> ENABLED get_tokens_raise
          [] b = 6 -> ENABLED get_tokens_return})

\* C13: tokenizing is total and deterministic: at every point of the main
\* loop exactly one branch applies; an iteration that stays in the loop has
\* consumed at least one character and never runs past the end of the text,
\* which it does not change; the loop is left either with a returned list or
\* with a LexerError, never both.
C13_TotalAndDeterministic ==
    /\ [](/\ mpc = "lex" => lexer_pos <= Len(text) /\ BranchesOpen = 1
          /\ mpc = "lexed" => lexer_error = NoError /\ lexer_tokens # <<>>
          /\ mpc = "lexer_error" => lexer_error.kind = "LexerError" /\ lexer_tokens = <<>>)
    /\ [][mpc = "lex" =>
            /\ mpc' \in {"lex", "lexed", "lexer_error"}
            /\ text' = text
            /\ lexer_pos' >= lexer_pos /\ lexer_pos' <= Len(text)
            /\ mpc' = "lex" => lexer_pos' > lexer_pos]_vars

\* the loop is under way: tokens were appended and input is left
C13_Witness ==
    /\ mpc = "lex"
    /\ Len(lexer_tokens) >= 3
    /\ lexer_pos < Len(text)
    /\ lexer_pos > 4


\* the characters of identifiers, and the maximal runs of them in a text:
\* a run starts where no such character precedes, and ends where none follows
WordChars == Letters \cup Digits \cup {"_"}
RunStarts(t) == {i \in 1..Len(t) : t[i] \in WordChars /\ (i = 1 \/ t[i - 1] \notin WordChars)}
RunEnd(t, i) == Max({j \in i..Len(t) : \A k \in i..j : t[k] \in WordChars})

\* C17: a maximal run of letters, digits and underscores that starts with a
\* letter or underscore, outside comments, yields exactly one token; its
\* lexeme is the whole run and its kind is INT for "int", PRINT for "print"
\* and ID for every other run.
C17_IdentifierOrKeyword ==
    GetTokensReturned =>
        \A i \in RunStarts(text) :
            text[i] \in Letters \cup {"_"} /\ ~InComment(text, i) =>
                LET run == SubSeq(text, i, RunEnd(text, i))
                    inside == {k \in 1..Len(lexer_tokens) :
                                  /\ lexer_tokens[k].type # "EOF"
                                  /\ \E o \in TokenOffset(text, lexer_tokens[k]) :
                                        o + 1 >= i /\ o + 1 <= RunEnd(text, i)}
                IN  /\ Cardinality(inside) = 1
                    /\ \A k \in inside :
                          /\ lexer_tokens[k].value = run
                          /\ lexer_tokens[k].type =
                                CASE run = <<"i", "n", "t">> -> "INT"
                                  [] run = <<"p", "r", "i", "n", "t">> -> "PRINT"
                                  [] OTHER -> "ID"

\* the tokens of "intx = print1;" were returned: two runs that extend a keyword
C17_Witness ==
    /\ GetTokensReturned
    /\ \E i, j \in RunStarts(text) :
          /\ SubSeq(text, i, RunEnd(text, i)) = <<"i", "n", "t", "x">>
          /\ SubSeq(text, j, RunEnd(text, j)) = <<"p", "r", "i", "n", "t", "1">>
    /\ \E k \in 1..Len(lexer_tokens) : lexer_tokens[k].value = <<"p", "r", "i", "n", "t", "1">>

\* the places of a text that belong to a // comment: the two slashes and
\* what follows them up to, not including, the newline
CommentChars(t) ==
    {i \in 1..Len(t) : \/ (InComment(t, i) /\ t[i] # "\n")
                        \/ (t[i] = "/" /\ i < Len(t) /\ t[i + 1] = "/")}

\* the text with every comment deleted: the remaining characters in order
StripComments(t) ==
    LET kept == (1..Len(t)) \ CommentChars(t)
    IN  [k \in 1..Cardinality(kept) |->
            t[CHOOSE i \in kept : Cardinality({j \in kept : j <= i}) = k]]

NonEOF(toks) == SelectSeq(toks, LAMBDA tok : tok.type # "EOF")

\* C18: a // comment produces no token and ends before the next newline:
\* the text with its comments deleted tokenizes to the same non-EOF tokens,
\* with the same kinds, lexemes, lines and columns; no token starts inside a
\* comment; and every / that is not part of a comment is a DIV token.
C18_CommentsAreDiscarded ==
    GetTokensReturned =>
        LET stripped == get_tokens(StripComments(text))
        IN  /\ lexer_tokens = get_tokens(text).tokens
            /\ stripped.error = NoError
            /\ NonEOF(stripped.tokens) = NonEOF(lexer_tokens)
            /\ \A k \in 1..Len(lexer_tokens) :
                  lexer_tokens[k].type # "EOF" =>
                     \A o \in TokenOffset(text, lexer_tokens[k]) : o + 1 \notin CommentChars(text)
            /\ \A i \in 1..Len(text) :
                  text[i] = "/" /\ i \notin CommentChars(text) =>
                     \E k \in 1..Len(lexer_tokens) :
                        /\ lexer_tokens[k] = Token("DIV", <<"/">>, LineOf(text, i - 1),
                                                   ColumnOf(text, i - 1))

\* a text with a division, then a comment, then more tokens on the next line
C18_Witness ==
    /\ GetTokensReturned
    /\ \E i, j, k \in 1..Len(text) :
          /\ i < j /\ j < k
          /\ text[i] = "/" /\ i \notin CommentChars(text)
          /\ j \in CommentChars(text) /\ text[j] # "/"
          /\ text[k] \in Letters /\ k \notin CommentChars(text)
    /\ Len(StripComments(text)) < Len(text)

-----------------------------------------------------------------------------
(* Further claims about the parser, under SpecParse. *)

\* the nonterminal each parse_* method hands to _record_derivation
NonterminalOf(method) ==
    CASE method = "parse_program" -> "Program"
      [] method = "parse_decl_list" -> "DeclList"
      [] method = "parse_decl" -> "Decl"
      [] method = "parse_stmt_list" -> "StmtList"
      [] method = "parse_stmt" -> "Stmt"
      [] method = "parse_expr" -> "Expr"
      [] method = "parse_expr_prime" -> "ExprPrime"
      [] method = "parse_term" -> "Term"
      [] method = "parse_term_prime" -> "TermPrime"
      [] method = "parse_factor" -> "Factor"

\* a parse_* method is the next thing to run
AtRule ==
    /\ parser_state = "running" /\ stack # <<>>
    /\ Top.op = "call" /\ Top.arg \notin {"parse", "parse_check"}

\* C15: whenever a parse_* method is about to run, the nonterminal it hands
\* to _record_derivation is in the sentential form, so the not-found branch
\* is never taken: every call of _record_derivation changes the form and
\* appends exactly one entry, the join of the new form, to the trace.
C15_NonterminalFound ==
    /\ [](AtRule => Index(sentential_form, NonterminalOf(Top.arg)) # 0)
    /\ [][record_calls' # record_calls =>
            /\ sentential_form' # sentential_form
            /\ derivation_steps' = Append(derivation_steps, Join(sentential_form'))]_vars

\* a rule is about to run while its nonterminal stands twice in the form
C15_Witness ==
    /\ AtRule
    /\ record_calls >= 12
    /\ Cardinality({i \in 1..Len(sentential_form) :
                       sentential_form[i] = NonterminalOf(Top.arg)}) >= 2

\* the rendering a right-hand side uses for the token kind its rule matches
RenderingOf(token_type) ==
    CASE token_type = "INT" -> "int"
      [] token_type = "ID" -> "id"
      [] token_type = "NUMBER" -> "number"
      [] token_type = "PRINT" -> "print"
      [] token_type = "SEMICOLON" -> ";"
      [] token_type = "ASSIGN" -> "="
      [] token_type = "PLUS" -> "+"
      [] token_type = "MINUS" -> "-"
      [] token_type = "MULT" -> "*"
      [] token_type = "DIV" -> "/"
      [] token_type = "LPAREN" -> "("
      [] token_type = "RPAREN" -> ")"

\* a call of _match is the next thing to run
AtMatch == parser_state = "running" /\ stack # <<>> /\ Top.op = "match"

\* C16: a rule records its production before it consumes a token of it: the
\* step of a rule that calls _record_derivation leaves the token index and
\* the current token as they were at its entry, and whenever a _match is
\* about to run, the terminal it matches already stands in the recorded
\* form, at the place of the current token and before every nonterminal.
C16_RecordBeforeMatch ==
    /\ [](AtMatch =>
            /\ pos + 1 <= Len(sentential_form)
            /\ sentential_form[pos + 1] = RenderingOf(Top.arg)
            /\ \A i \in 1..(pos + 1) : sentential_form[i] \notin Nonterminals
            /\ Len(derivation_steps) >= 2
            /\ derivation_steps[Len(derivation_steps)] = Join(sentential_form))
    /\ [][record_calls' # record_calls => pos' = pos /\ current' = current]_vars

\* the closing parenthesis of a factor is about to be matched, long after its
\* production was recorded
C16_Witness ==
    /\ AtMatch
    /\ Top.arg = "RPAREN"
    /\ current.type = "RPAREN"
    /\ pos >= 5
    /\ record_calls >= 10

\* the renderings of the first n tokens, in order
RenderingsOfTokens(n) == [k \in 1..n |-> RenderingOf(tokens[k].type)]

\* C19: at every expansion the symbols left of the replaced nonterminal are
\* the renderings of the tokens consumed so far, in order, and there are pos
\* of them; after a successful parse the sentential form and the last trace
\* entry are the renderings of all tokens before EOF, in input order.
C19_ConsumedPrefix ==
    /\ [](parser_state = "done" =>
            /\ pos = Len(tokens) - 1
            /\ sentential_form = RenderingsOfTokens(pos)
            /\ Last(derivation_steps) = Join(RenderingsOfTokens(pos))
            /\ Words(Last(derivation_steps))
                  = [k \in 1..pos |-> Spelling(RenderingOf(tokens[k].type))])
    /\ [][record_calls' # record_calls =>
            LET idx == LeftmostNonterminal(sentential_form)
            IN  /\ idx - 1 = pos
                /\ SubSeq(sentential_form, 1, idx - 1) = RenderingsOfTokens(pos)
                /\ SubSeq(sentential_form', 1, idx - 1) = RenderingsOfTokens(pos)]_vars

\* a rule is about to expand its nonterminal behind ten consumed tokens, with
\* unmatched terminals and further nonterminals to its right
C19_Witness ==
    /\ AtRule
    /\ pos >= 10
    /\ LeftmostNonterminal(sentential_form) = pos + 1
    /\ \E i, j \in (pos + 2)..Len(sentential_form) :
          sentential_form[i] \in Nonterminals /\ sentential_form[j] \in Renderings

\* the item is a call by which a rule enters itself again: directly, or
\* parse_expr from parse_factor
Reentry(item) ==
    /\ item.op = "call"
    /\ \/ /\ item.arg = item.by
          /\ item.arg \in {"parse_decl_list", "parse_stmt_list", "parse_expr_prime",
                           "parse_term_prime"}
       \/ item.arg = "parse_expr" /\ item.by = "parse_factor"

\* C20: parse() terminates on every token list that ends with EOF: the token
\* index never decreases and moves by one token at most, it never passes the
\* EOF token, current is the token at the index, a rule is entered again only
\* at a greater index than the one at which the rule that calls it was
\* entered, and every parse ends, accepted or with a ParserError.
C20_Terminates ==
    /\ [](parser_state # "idle" =>
            /\ pos + 1 <= Len(tokens)
            /\ current = tokens[pos + 1]
            /\ tokens[Len(tokens)].type = "EOF"
            /\ \A i \in 1..Len(stack) : stack[i].at <= pos
            /\ stack # <<>> /\ Reentry(Top) => pos > Top.at)
    /\ [][pos' >= pos /\ pos' <= pos + 1 /\ tokens' = tokens]_vars
    /\ <>(parser_state \in {"done", "error"} /\ stack = <<>>)

\* parse_expr is about to be entered again from parse_factor, inside a
\* parenthesis inside a parenthesis
C20_Witness ==
    /\ AtRule
    /\ Reentry(Top) /\ Top.arg = "parse_expr"
    /\ pos >= 2
    /\ tokens[pos].type = "LPAREN" /\ tokens[pos - 1].type = "LPAREN"
    /\ Cardinality({i \in 1..Len(stack) :
                       stack[i].op = "match" /\ stack[i].arg = "RPAREN"}) >= 2

-----------------------------------------------------------------------------
(* The round trip, under SpecRoundTrip. *)

\* the text of the second pass has been tokenized
SecondPass == lexer_tokens # <<>> \/ lexer_error # NoError

\* C14: for every token list parse() accepts, the last entry of the trace
\* tokenizes without a LexerError, and the parse of the resulting list never
\* raises (the rendering number comes back as an identifier, which every
\* place of a number admits).
C14_RoundTrip ==
    SecondPass =>
        /\ lexer_error = NoError
        /\ mpc = "parse"
        /\ tokens = lexer_tokens
        /\ parser_state \in {"running", "done"}
        /\ parser_error = NoError

\* the second parse has accepted a program whose first parse held a number
C14_Witness ==
    /\ SecondPass
    /\ parser_state = "done"
    /\ Len(tokens) >= 10
    /\ \E k \in 1..Len(tokens) :
          tokens[k].type = "ID" /\ tokens[k].value = <<"n", "u", "m", "b", "e", "r">>

====
